---- MODULE Spec2Model ----
(***************************************************************************)
(* Transaction orchestration hooks of the Sui NFT DApp: useMintNFT,        *)
(* useLevelUp and useCoinSplit, the error classifier and transaction       *)
(* builders of lib/transactionUtils.ts, the mutation retry policy of       *)
(* SuiProvider and the page-level level-up handler.                        *)
(*                                                                         *)
(* JavaScript runs every synchronous stretch of code to completion, so a   *)
(* hook invocation is a chain of steps that nothing interleaves with       *)
(* (variable running names the invocation that holds the thread) and the   *)
(* only place other invocations get to run is the await on the signer.     *)
(***************************************************************************)
EXTENDS Integers, Sequences, FiniteSets, TLC

\* ------------------------------------------------------------------------
\* Bounds
\* ------------------------------------------------------------------------
MaxInv == 2       \* hook invocations started in one behaviour
MaxCoins == 2     \* owned SUI coin objects returned by getCoins
GasCharged == 2000000  \* MIST the chain charges for an executed split

\* ------------------------------------------------------------------------
\* Program constants
\* ------------------------------------------------------------------------
estimatedGas == 10000000    \* part_007:120
MutationRetry == 1          \* part_009:705  mutations: { retry: 1 }

PACKAGE_ID == "0x95ea5e48398629b9e21b47bd43ae04174ac3e310b54fb961d780b856b3eaf1a3"
MODULE_NAME == "simple_nft"
CONTRACT_FUNCTIONS ==
  [MINT |-> PACKAGE_ID \o "::" \o MODULE_NAME \o "::mint",
   LEVEL_UP |-> PACKAGE_ID \o "::" \o MODULE_NAME \o "::level_up"]

\* ------------------------------------------------------------------------
\* Values
\* ------------------------------------------------------------------------
\* An optional value (string | null, digest?: string, undefined query data)
\* is the empty tuple when absent and a one-element tuple when present.
Null == <<>>
Some(v) == <<v>>

Hooks == {"mint", "levelUp", "split"}

\* A thrown or rejected value: an Error instance with its message, or any
\* other value (a string, undefined, a plain object).
Err(msg) == [isError |-> TRUE, message |-> msg]
NonError(v) == [isError |-> FALSE, message |-> v]

\* What the wallet may reject a signing request with.
SignerErrors ==
  { Err("User rejected the request"),
    Err(""),
    NonError("declined") }

Digests == {"digestA"}

MintInputs ==
  { [name |-> "Hero", description |-> "First of its kind",
     image_url |-> "https://example.com/hero.png"] }
NFTIds == {"0xnft1", "0xnft2"}

\* data.amount is a decimal number of SUI.  The model holds it as the
\* integer a with data.amount = a / 10^10, one digit finer than a MIST, so
\* that the rounding of suiToMist has something to round.
SplitAmounts == {15, 550000000}

Balances == {60000000, 65000000}
Addresses == {"0xA11CE"}

RECURSIVE SeqsUpTo(_, _)
SeqsUpTo(S, n) ==
  IF n = 0 THEN {<<>>}
  ELSE LET shorter == SeqsUpTo(S, n - 1)
       IN shorter \cup {Append(s, x) : s \in {t \in shorter : Len(t) = n - 1}, x \in S}

\* getCoins results: coin objects in the order the node lists them.
CoinObject(k, b) == [coinObjectId |-> "0xcoin" \o ToString(k), balance |-> b]
CoinLists ==
  { [k \in 1..Len(bs) |-> CoinObject(k, bs[k])] : bs \in SeqsUpTo(Balances, MaxCoins) }

\* ------------------------------------------------------------------------
\* lib/transactionUtils.ts
\* ------------------------------------------------------------------------
\* String.prototype.includes: pat occurs in msg as a contiguous substring,
\* compared character by character (case-sensitive).
Includes(msg, pat) ==
  \E k \in 1..(Len(msg) - Len(pat) + 1) : SubSeq(msg, k, k + Len(pat) - 1) = pat

\* Mutant: the check for a user rejection comes first.
handleTransactionError_UserRejectedFirst(error) ==
  IF error.isError
  THEN IF Includes(error.message, "User rejected")
       THEN [message |-> "Transaction was rejected by the user",
             code |-> "USER_REJECTED", details |-> error]
       ELSE IF Includes(error.message, "Insufficient funds")
       THEN [message |-> "Insufficient SUI balance to complete the transaction",
             code |-> "INSUFFICIENT_FUNDS", details |-> error]
       ELSE IF Includes(error.message, "Gas budget")
       THEN [message |-> "Transaction requires more gas than available",
             code |-> "GAS_BUDGET_ERROR", details |-> error]
       ELSE IF Includes(error.message, "No valid gas coins found")
       THEN [message |-> "No separate coin available for gas fees. You may need more SUI coins or a larger balance.",
             code |-> "NO_GAS_COINS", details |-> error]
       ELSE IF Includes(error.message, "Object not found")
       THEN [message |-> "The requested object was not found on the blockchain",
             code |-> "OBJECT_NOT_FOUND", details |-> error]
       ELSE [message |-> error.message, code |-> "TRANSACTION_ERROR", details |-> error]
  ELSE [message |-> "An unknown error occurred during the transaction",
        code |-> "UNKNOWN_ERROR", details |-> error]

\* Mutant: a value that is not an Error is read as if it were a message.
handleTransactionError_ReadsAnyValue(error) ==
  IF Includes(error.message, "Insufficient funds")
  THEN [message |-> "Insufficient SUI balance to complete the transaction",
        code |-> "INSUFFICIENT_FUNDS", details |-> error]
  ELSE IF Includes(error.message, "Gas budget")
  THEN [message |-> "Transaction requires more gas than available",
        code |-> "GAS_BUDGET_ERROR", details |-> error]
  ELSE IF Includes(error.message, "No valid gas coins found")
  THEN [message |-> "No separate coin available for gas fees. You may need more SUI coins or a larger balance.",
        code |-> "NO_GAS_COINS", details |-> error]
  ELSE IF Includes(error.message, "Object not found")
  THEN [message |-> "The requested object was not found on the blockchain",
        code |-> "OBJECT_NOT_FOUND", details |-> error]
  ELSE IF Includes(error.message, "User rejected")
  THEN [message |-> "Transaction was rejected by the user",
        code |-> "USER_REJECTED", details |-> error]
  ELSE IF error.isError
  THEN [message |-> error.message, code |-> "TRANSACTION_ERROR", details |-> error]
  ELSE [message |-> "An unknown error occurred during the transaction",
        code |-> "UNKNOWN_ERROR", details |-> error]

handleTransactionError(error) ==
  IF error.isError
  THEN IF Includes(error.message, "Insufficient funds")
       THEN [message |-> "Insufficient SUI balance to complete the transaction",
             code |-> "INSUFFICIENT_FUNDS", details |-> error]
       ELSE IF Includes(error.message, "Gas budget")
       THEN [message |-> "Transaction requires more gas than available",
             code |-> "GAS_BUDGET_ERROR", details |-> error]
       ELSE IF Includes(error.message, "No valid gas coins found")
       THEN [message |-> "No separate coin available for gas fees. You may need more SUI coins or a larger balance.",
             code |-> "NO_GAS_COINS", details |-> error]
       ELSE IF Includes(error.message, "Object not found")
       THEN [message |-> "The requested object was not found on the blockchain",
             code |-> "OBJECT_NOT_FOUND", details |-> error]
       ELSE IF Includes(error.message, "User rejected")
       THEN [message |-> "Transaction was rejected by the user",
             code |-> "USER_REJECTED", details |-> error]
       ELSE [message |-> error.message, code |-> "TRANSACTION_ERROR", details |-> error]
  ELSE [message |-> "An unknown error occurred during the transaction",
        code |-> "UNKNOWN_ERROR", details |-> error]

\* Math.floor(parseFloat(sui) * 1_000_000_000) for sui = a / 10^10.
suiToMist(sui) == sui \div 10

\* Mutant: the image URL is passed before the description.
createMintNFTTransaction_Reordered(data) ==
  << [kind |-> "MoveCall", target |-> CONTRACT_FUNCTIONS.MINT,
      arguments |-> << [pure |-> "string", value |-> data.name],
                       [pure |-> "string", value |-> data.image_url],
                       [pure |-> "string", value |-> data.description] >>] >>

createMintNFTTransaction(data) ==
  << [kind |-> "MoveCall", target |-> CONTRACT_FUNCTIONS.MINT,
      arguments |-> << [pure |-> "string", value |-> data.name],
                       [pure |-> "string", value |-> data.description],
                       [pure |-> "string", value |-> data.image_url] >>] >>

createLevelUpTransaction(nftId) ==
  << [kind |-> "MoveCall", target |-> CONTRACT_FUNCTIONS.LEVEL_UP,
      arguments |-> << [object |-> nftId] >>] >>

\* recipient is optional: Null when the caller has no connected account.
\* if (recipient) is false for undefined and for the empty string.
createCoinSplitTransaction(coinObjectId, amount, recipient) ==
  LET split == [kind |-> "SplitCoins", coin |-> "GasCoin", amounts |-> <<amount>>]
  IN IF recipient # Null /\ recipient[1] # ""
     THEN << split, [kind |-> "TransferObjects", objects |-> <<"Result(0)">>,
                     address |-> recipient[1]] >>
     ELSE << split >>

\* ------------------------------------------------------------------------
\* useCoinSplit: the pre-flight balance check
\* ------------------------------------------------------------------------
\* coins.data.reduce((sum, coin) => sum + parseInt(coin.balance), 0)
RECURSIVE totalBalance(_)
totalBalance(data) ==
  IF data = <<>> THEN 0
  ELSE totalBalance(SubSeq(data, 1, Len(data) - 1)) + data[Len(data)].balance

\* coins.data.reduce((largest, coin) => coin.balance > largest.balance ? coin : largest)
\* on a non-empty list: the first coin of the greatest balance.
RECURSIVE suitableCoin(_)
suitableCoin(data) ==
  IF Len(data) = 1 THEN data[1]
  ELSE LET largest == suitableCoin(SubSeq(data, 1, Len(data) - 1))
           coin == data[Len(data)]
       IN IF coin.balance > largest.balance THEN coin ELSE largest

\* Mutant: the guard on the largest coin is missing.
PreFlight_TotalOnly(queryData, requiredAmount) ==
  IF queryData = Null \/ Len(queryData[1]) = 0
  THEN Some(Err("No SUI coins found in your wallet"))
  ELSE IF totalBalance(queryData[1]) < requiredAmount + estimatedGas
  THEN Some(Err("Insufficient balance for split amount plus gas fees"))
  ELSE Null

\* Mutant: a coin that holds exactly amount + gas is refused.
PreFlight_OffByOne(queryData, requiredAmount) ==
  IF queryData = Null \/ Len(queryData[1]) = 0
  THEN Some(Err("No SUI coins found in your wallet"))
  ELSE IF totalBalance(queryData[1]) <= requiredAmount + estimatedGas
  THEN Some(Err("Insufficient balance for split amount plus gas fees"))
  ELSE IF suitableCoin(queryData[1]).balance <= requiredAmount + estimatedGas
  THEN Some(Err("Largest coin does not have sufficient balance for split amount plus gas fees"))
  ELSE Null

\* The three guards of splitCoin, in the order the code tests them: Null
\* when all pass, else the Error the code throws.  queryData is the data
\* of the getCoins query (Null while the query has none).
PreFlight(queryData, requiredAmount) ==
  IF queryData = Null \/ Len(queryData[1]) = 0
  THEN Some(Err("No SUI coins found in your wallet"))
  ELSE IF totalBalance(queryData[1]) < requiredAmount + estimatedGas
  THEN Some(Err("Insufficient balance for split amount plus gas fees"))
  ELSE IF suitableCoin(queryData[1]).balance < requiredAmount + estimatedGas
  THEN Some(Err("Largest coin does not have sufficient balance for split amount plus gas fees"))
  ELSE Null

\* ------------------------------------------------------------------------
\* State
\* ------------------------------------------------------------------------
VARIABLES
  isLoading,        \* [hook -> BOOLEAN]      useState(false) of each hook
  error,            \* [hook -> string|null]  useState(null) of each hook
  currentAccount,   \* useCurrentAccount(): Null or Some(address)
  coins,            \* data of the getCoins query: Null or Some(coin list)
  levelingUpNFTId,  \* Home: useState<string | undefined>()
  inv,              \* [invocation -> its locals and its position]
  running,          \* invocation executing synchronous code, 0 when none
  overlapped,       \* [hook -> BOOLEAN] history: the hook's latest invocation
                    \* started while an earlier one was pending
  classifier,       \* one call of handleTransactionError: its argument and result
  poller,           \* one call of waitForTransaction: its locals and position
  builder,          \* one call of createCoinSplitTransaction: arguments and result
  faucet,           \* a useFaucet instance: its state and its requests
  lastSplitResult,  \* CoinSplitForm: useState<string | null>(null)
  ledger            \* the SUI coins the account owns on chain; Null in the
                    \* specifications that keep the getCoins data fixed

vars == <<isLoading, error, currentAccount, coins, levelingUpNFTId, inv, running, overlapped,
          classifier, poller, builder, faucet, lastSplitResult, ledger>>

\* The invocations a behaviour of the application has room for; the page
\* on its own has room for DOMAIN inv.
Inv == 1..MaxInv

\* The utility functions of lib/transactionUtils.ts when called on their own.
Library == <<classifier, poller, builder, faucet>>
NotCalled == [pc |-> "idle"]

\* The locals of an invocation that has not started.  coins and
\* currentAccount are the values of the render whose splitCoin closure the
\* caller invoked.  formToasts, formReset and refreshScheduled are what the
\* form's onSubmit around the invocation did: its own notifications,
\* form.reset() and the setTimeout of onMintSuccess.  steps lists what the
\* hook function has executed so far, in order.
Fresh ==
  [hook |-> "", pc |-> "idle", data |-> Null, transaction |-> Null,
   result |-> Null, err |-> Null, suiError |-> Null, response |-> Null,
   toasts |-> <<>>, mutateCalls |-> 0, walletCalls |-> 0,
   submitted |-> Null, coins |-> Null, currentAccount |-> Null,
   formToasts |-> <<>>, formReset |-> FALSE, refreshScheduled |-> FALSE,
   steps |-> <<>>, ledgerAtCall |-> Null]

\* The argument of an invocation, kept under the name of its hook: an NFT
\* form value for mint, an object id for levelUp, an amount for split.
Args(h, data) == [k \in {h} |-> data]
Arg(i) == inv[i].data[inv[i].hook]

\* An invocation is pending from its call until its promise settles.
Pending(i) == inv[i].pc \notin {"idle", "settled", "returned", "done"}
PendingOn(h) == {i \in DOMAIN inv : inv[i].hook = h /\ Pending(i)}

\* Mutant: the getCoins query runs and holds data without an account.
CoinsQueryData_AlwaysEnabled(account) ==
  {Null} \cup {Some(l) : l \in CoinLists}

\* useSuiClientQuery('getCoins', {owner}, {enabled: !!currentAccount?.address}):
\* the query is enabled only with an account; with one, it may still be
\* loading (no data) or hold a coin list.
CoinsQueryData(account) ==
  IF account = Null THEN {Null}
  ELSE {Null} \cup {Some(l) : l \in CoinLists}

Init ==
  /\ isLoading = [h \in Hooks |-> FALSE]
  /\ error = [h \in Hooks |-> Null]
  /\ currentAccount \in {Null} \cup {Some(a) : a \in Addresses}
  /\ coins \in CoinsQueryData(currentAccount)
  /\ levelingUpNFTId = Null
  /\ inv = [i \in 1..MaxInv |-> Fresh]
  /\ running = 0
  /\ overlapped = [h \in Hooks |-> FALSE]
  /\ lastSplitResult = Null
  /\ ledger = Null
  /\ classifier = NotCalled
  /\ poller = NotCalled
  /\ builder = NotCalled
  /\ faucet = NotCalled

\* ------------------------------------------------------------------------
\* Invocation: setIsLoading(true); setError(null); enter the try block
\* ------------------------------------------------------------------------
\* Invocation slots are handed out in order.
CanStart(i) ==
  /\ running = 0
  /\ inv[i].pc = "idle"
  /\ \A j \in DOMAIN inv : j < i => inv[j].pc # "idle"

\* Mutant: the hook function does not touch isLoading and error on entry.
Begin_NoLoading(i, h, data, first, closure) ==
  /\ UNCHANGED <<isLoading, error>>
  /\ overlapped' = [overlapped EXCEPT ![h] = PendingOn(h) # {}]
  /\ inv' = [inv EXCEPT ![i] = [closure EXCEPT !.hook = h, !.data = Args(h, data), !.pc = first]]
  /\ running' = i

Begin(i, h, data, first, closure) ==
  /\ isLoading' = [isLoading EXCEPT ![h] = TRUE]
  /\ error' = [error EXCEPT ![h] = Null]
  /\ overlapped' = [overlapped EXCEPT ![h] = PendingOn(h) # {}]
  /\ inv' = [inv EXCEPT ![i] = [closure EXCEPT !.hook = h, !.data = Args(h, data), !.pc = first,
                                               !.steps = <<"setIsLoading(true)", "setError(null)">>]]
  /\ running' = i

\* MintForm and CoinSplitForm disable their submit button while the hook
\* they own reports isLoading, so a form starts no second invocation of its
\* hook before the first has settled.
SubmitEnabled(h) == ~isLoading[h]

\* sonner: a toast with the id of a toast on screen replaces that toast,
\* any other toast is added.  id "" stands for no id given.
ShowToast(toasts, t) ==
  IF t.id # "" /\ \E k \in 1..Len(toasts) : toasts[k].id = t.id
  THEN [k \in 1..Len(toasts) |-> IF toasts[k].id = t.id THEN t ELSE toasts[k]]
  ELSE Append(toasts, t)

\* MintForm.onSubmit with no account: toast.error and return, mintNFT is
\* not called.
MintFormNotConnected(i, data) ==
  /\ CanStart(i)
  /\ SubmitEnabled("mint")
  /\ currentAccount = Null
  /\ inv' = [inv EXCEPT ![i] =
       [Fresh EXCEPT !.hook = "mint", !.data = Args("mint", data), !.pc = "returned",
                     !.formToasts = ShowToast(<<>>, [kind |-> "error", id |-> "",
                                      message |-> "Please connect your wallet first"])]]
  /\ running' = i
  /\ UNCHANGED <<isLoading, error, overlapped, currentAccount, coins, levelingUpNFTId,
                 Library, lastSplitResult, ledger>>

\* MintForm.onSubmit with an account: toast.loading, then mintNFT(data).
mintNFT(i, data) ==
  /\ CanStart(i)
  /\ SubmitEnabled("mint")
  /\ currentAccount # Null
  /\ Begin(i, "mint", data, "build",
           [Fresh EXCEPT !.formToasts = ShowToast(<<>>, [kind |-> "loading", id |-> "mint-nft",
                                            message |-> "Minting NFT..."])])
  /\ UNCHANGED <<currentAccount, coins, levelingUpNFTId, Library, lastSplitResult, ledger>>

levelUp(i, nftId) ==
  /\ Begin(i, "levelUp", nftId, "build", Fresh)
  /\ UNCHANGED <<currentAccount, coins, Library, lastSplitResult, ledger>>

splitCoin(i, data) ==
  /\ CanStart(i)
  /\ SubmitEnabled("split")
  /\ Begin(i, "split", data, "preflight",
           [Fresh EXCEPT !.coins = coins, !.currentAccount = currentAccount,
                         !.ledgerAtCall = ledger])
  /\ UNCHANGED <<currentAccount, coins, levelingUpNFTId, Library, lastSplitResult, ledger>>

\* NFTCard.handleLevelUp -> Home.handleLevelUp: a click on the card of
\* nftId is ignored while that card shows the leveling state; otherwise the
\* page records the NFT and calls the one page-level levelUp.
handleLevelUp(i, nftId) ==
  /\ CanStart(i)
  /\ levelingUpNFTId # Some(nftId)
  /\ levelingUpNFTId' = Some(nftId)
  /\ levelUp(i, nftId)

\* ------------------------------------------------------------------------
\* The try block up to the await
\* ------------------------------------------------------------------------
Step(i, at) == running = i /\ inv[i].pc = at
HookState == <<isLoading, error, overlapped>>
Env == <<currentAccount, coins, levelingUpNFTId, Library, lastSplitResult, ledger>>

\* splitCoin lines 110-134: convert the amount, then the three guards.  A
\* guard that fails throws, which lands in the catch block.
SplitPreFlight(i) ==
  /\ Step(i, "preflight")
  /\ LET amountInMist == suiToMist(Arg(i))
         thrown == PreFlight(inv[i].coins, amountInMist)
     IN inv' = [inv EXCEPT ![i].pc = IF thrown = Null THEN "build" ELSE "catch",
                           ![i].err = thrown,
                           ![i].steps = Append(@, "preflight")]
  /\ UNCHANGED <<HookState, Env, running>>

\* The call description the hook builds for its operation.
BuildTransaction(h, data, queryData, account) ==
  CASE h = "mint" -> createMintNFTTransaction(data)
    [] h = "levelUp" -> createLevelUpTransaction(data)
    [] h = "split" ->
         createCoinSplitTransaction(suitableCoin(queryData[1]).coinObjectId,
                                    suiToMist(data), account)

Build(i) ==
  /\ Step(i, "build")
  /\ inv' = [inv EXCEPT
       ![i].transaction = Some(BuildTransaction(inv[i].hook, Arg(i), inv[i].coins, inv[i].currentAccount)),
       ![i].steps = Append(@, "build"),
       ![i].pc = "submit"]
  /\ UNCHANGED <<HookState, Env, running>>

\* signAndExecuteTransaction({transaction}, {onSuccess, onError}): the one
\* call of the mutation; the invocation then waits for a callback.
Submit(i) ==
  /\ Step(i, "submit")
  /\ inv' = [inv EXCEPT ![i].mutateCalls = @ + 1,
                        ![i].submitted = inv[i].transaction,
                        ![i].steps = Append(@, "submit"),
                        ![i].pc = "awaiting"]
  /\ running' = 0
  /\ UNCHANGED <<HookState, Env>>

\* ------------------------------------------------------------------------
\* The mutation behind useSignAndExecuteTransaction (SuiProvider's
\* QueryClient: mutations retry 1)
\* ------------------------------------------------------------------------
\* What an executed split does to the coins the account owns: the gas coin
\* pays the split amount and the gas fee, and the transfer hands the account
\* a new coin object of the split amount.
Executed(owned, amount) ==
  LET gas == suitableCoin(owned)
  IN Append([k \in 1..Len(owned) |->
               IF owned[k] = gas
               THEN [owned[k] EXCEPT !.balance = @ - amount - GasCharged]
               ELSE owned[k]],
            CoinObject(Len(owned) + 1, amount))

\* The chain executes a split only when the gas coin covers it.
Executable(i) ==
  (inv[i].hook = "split" /\ ledger # Null) =>
     /\ ledger[1] # <<>>
     /\ suitableCoin(ledger[1]).balance >= suiToMist(Arg(i)) + GasCharged

\* The wallet signs and executes: onSuccess(result) resolves the promise.
WalletResolves(i, digest) ==
  /\ running = 0
  /\ inv[i].pc = "awaiting"
  /\ Executable(i)
  /\ inv' = [inv EXCEPT ![i].walletCalls = @ + 1,
                        ![i].result = Some([digest |-> digest]),
                        ![i].pc = "resolved"]
  /\ ledger' = IF inv[i].hook = "split" /\ ledger # Null
               THEN Some(Executed(ledger[1], suiToMist(Arg(i))))
               ELSE ledger
  /\ running' = i
  /\ UNCHANGED <<HookState, currentAccount, coins, levelingUpNFTId, Library,
                 lastSplitResult>>

\* The wallet rejects: the mutation hands the transaction to the wallet again
\* until it has failed MutationRetry + 1 times, then onError(error) rejects
\* the promise.
WalletRejects(i, e) ==
  /\ running = 0
  /\ inv[i].pc = "awaiting"
  /\ IF inv[i].walletCalls < MutationRetry
     THEN /\ inv' = [inv EXCEPT ![i].walletCalls = @ + 1]
          /\ running' = 0
     ELSE /\ inv' = [inv EXCEPT ![i].walletCalls = @ + 1,
                                ![i].err = Some(e),
                                ![i].pc = "catch"]
          /\ running' = i
  /\ UNCHANGED <<HookState, Env>>

\* ------------------------------------------------------------------------
\* After the await: success path, catch block, finally block
\* ------------------------------------------------------------------------
SuccessToast(h, data) ==
  CASE h = "mint" -> "NFT minted successfully!"
    [] h = "levelUp" -> "NFT leveled up successfully! Level will update shortly."
    [] h = "split" -> "Successfully split " \o ToString(data) \o " SUI"

FailurePrefix(h) ==
  CASE h = "mint" -> "Failed to mint NFT: "
    [] h = "levelUp" -> "Failed to level up NFT: "
    [] h = "split" -> "Failed to split coin: "

SuccessResponse(result) ==
  [success |-> TRUE, digest |-> Some(result.digest), error |-> Null, data |-> Some(result)]

\* Mutant: the failure response keeps a digest field.
FailureResponse_WithDigest(suiError) ==
  [success |-> FALSE, digest |-> Some(""), error |-> Some(suiError.message), data |-> Null]

FailureResponse(suiError) ==
  [success |-> FALSE, digest |-> Null, error |-> Some(suiError.message), data |-> Null]

\* toast.success(...); return {success: true, digest, data}
Succeed(i) ==
  /\ Step(i, "resolved")
  /\ inv' = [inv EXCEPT
       ![i].toasts = Append(@, [kind |-> "success",
                                message |-> SuccessToast(inv[i].hook, Arg(i))]),
       ![i].response = Some(SuccessResponse(inv[i].result[1])),
       ![i].steps = Append(@, "toast.success"),
       ![i].pc = "finally"]
  /\ UNCHANGED <<HookState, Env, running>>

\* Mutant: the catch block handles Error instances only and rethrows any
\* other value, so the promise rejects.
Classify_Rethrow(i) ==
  /\ Step(i, "catch")
  /\ IF inv[i].err[1].isError
     THEN /\ inv' = [inv EXCEPT ![i].suiError = Some(handleTransactionError(inv[i].err[1])),
                                ![i].pc = "classified"]
          /\ running' = running
     ELSE /\ inv' = [inv EXCEPT ![i].pc = "rejected"]
          /\ running' = 0
  /\ UNCHANGED <<HookState, Env>>

\* catch (err): const suiError = handleTransactionError(err)
Classify(i) ==
  /\ Step(i, "catch")
  /\ inv' = [inv EXCEPT ![i].suiError = Some(handleTransactionError(inv[i].err[1])),
                        ![i].steps = Append(@, "classify"),
                        ![i].pc = "classified"]
  /\ UNCHANGED <<HookState, Env, running>>

\* Mutant: the catch block sets the error state but emits no notification.
Fail_Silent(i) ==
  /\ Step(i, "classified")
  /\ error' = [error EXCEPT ![inv[i].hook] = Some(inv[i].suiError[1].message)]
  /\ inv' = [inv EXCEPT
       ![i].response = Some(FailureResponse(inv[i].suiError[1])),
       ![i].pc = "finally"]
  /\ UNCHANGED <<isLoading, overlapped, Env, running>>

\* setError(suiError.message); toast.error(...); return {success: false, error}
Fail(i) ==
  /\ Step(i, "classified")
  /\ error' = [error EXCEPT ![inv[i].hook] = Some(inv[i].suiError[1].message)]
  /\ inv' = [inv EXCEPT
       ![i].toasts = Append(@, [kind |-> "error",
                                message |-> FailurePrefix(inv[i].hook) \o inv[i].suiError[1].message]),
       ![i].response = Some(FailureResponse(inv[i].suiError[1])),
       ![i].steps = @ \o <<"setError", "toast.error">>,
       ![i].pc = "finally"]
  /\ UNCHANGED <<isLoading, overlapped, Env, running>>

\* Mutant: isLoading is reset on the success path only.
Finally_OnlyOnSuccess(i) ==
  /\ Step(i, "finally")
  /\ isLoading' = [isLoading EXCEPT ![inv[i].hook] =
                     IF inv[i].response[1].success THEN FALSE ELSE @]
  /\ inv' = [inv EXCEPT ![i].pc = "settled"]
  /\ UNCHANGED <<error, overlapped, Env, running>>

\* finally: setIsLoading(false); the promise settles with the response and
\* the caller that awaits it runs on in the same turn.
Finally(i) ==
  /\ Step(i, "finally")
  /\ isLoading' = [isLoading EXCEPT ![inv[i].hook] = FALSE]
  /\ inv' = [inv EXCEPT ![i].pc = "settled",
                        ![i].steps = Append(@, "setIsLoading(false)")]
  /\ UNCHANGED <<error, overlapped, Env, running>>

\* The invocation is over: its locals go out of scope.
Done == [Fresh EXCEPT !.pc = "done"]

\* Home.handleLevelUp after `await levelUp(nftId)`: finally
\* setLevelingUpNFTId(undefined).
handleLevelUpFinally(i) ==
  /\ Step(i, "settled")
  /\ inv[i].hook = "levelUp"
  /\ levelingUpNFTId' = Null
  /\ inv' = [inv EXCEPT ![i] = Done]
  /\ running' = 0
  /\ UNCHANGED <<HookState, currentAccount, coins, Library, lastSplitResult, ledger>>

\* MintForm.onSubmit after `await mintNFT(...)`: the response is not looked
\* at; toast.success, form.reset(), setImagePreview(''), setTimeout of
\* onMintSuccess.  mintNFT never rejects, so the catch block is never entered.
MintFormAfterAwait(i) ==
  [inv[i] EXCEPT
     !.formToasts = ShowToast(@, [kind |-> "success", id |-> "mint-nft",
        message |-> "NFT minted successfully! Check your gallery in a few seconds."]),
     !.formReset = TRUE,
     !.refreshScheduled = TRUE,
     !.pc = "returned"]

\* CoinSplitForm.onSubmit after `await splitCoin(...)`: on success
\* setLastSplitResult, form.reset(), toast.success; on failure nothing.
CoinSplitFormAfterAwait(i) ==
  IF inv[i].response[1].success
  THEN [inv[i] EXCEPT
          !.formToasts = ShowToast(@, [kind |-> "success", id |-> "",
             message |-> "Successfully split " \o ToString(Arg(i)) \o " SUI!"]),
          !.formReset = TRUE,
          !.pc = "returned"]
  ELSE [inv[i] EXCEPT !.pc = "returned"]

\* The form that awaits mintNFT or splitCoin receives the response and runs
\* on in the same turn.
Resume(i) ==
  /\ Step(i, "settled")
  /\ inv[i].hook \in {"mint", "split"}
  /\ inv' = [inv EXCEPT ![i] = IF inv[i].hook = "mint" THEN MintFormAfterAwait(i)
                                ELSE CoinSplitFormAfterAwait(i)]
  /\ lastSplitResult' =
       IF inv[i].hook = "split" /\ inv[i].response[1].success
       THEN inv[i].response[1].digest
       ELSE lastSplitResult
  /\ UNCHANGED <<HookState, currentAccount, coins, levelingUpNFTId, Library,
                 ledger, running>>

\* onSubmit returns: the locals of the invocation go out of scope.
onSubmitReturns(i) ==
  /\ Step(i, "returned")
  /\ inv' = [inv EXCEPT ![i] = Done]
  /\ running' = 0
  /\ UNCHANGED <<HookState, Env>>

Next ==
  \/ \E i \in Inv, data \in MintInputs : MintFormNotConnected(i, data)
  \/ \E i \in Inv, data \in MintInputs : mintNFT(i, data)
  \/ \E i \in Inv, nftId \in NFTIds : handleLevelUp(i, nftId)
  \/ \E i \in Inv, amount \in SplitAmounts : splitCoin(i, amount)
  \/ \E i \in Inv : SplitPreFlight(i)
  \/ \E i \in Inv : Build(i)
  \/ \E i \in Inv : Submit(i)
  \/ \E i \in Inv, d \in Digests : WalletResolves(i, d)
  \/ \E i \in Inv, e \in SignerErrors : WalletRejects(i, e)
  \/ \E i \in Inv : Succeed(i)
  \/ \E i \in Inv : Classify(i)
  \/ \E i \in Inv : Fail(i)
  \/ \E i \in Inv : Finally(i)
  \/ \E i \in Inv : handleLevelUpFinally(i)
  \/ \E i \in Inv : Resume(i)
  \/ \E i \in Inv : onSubmitReturns(i)

Spec == Init /\ [][Next]_vars

TypeOK ==
  /\ isLoading \in [Hooks -> BOOLEAN]
  /\ running \in 0..MaxInv
  /\ \A i \in Inv : inv[i].mutateCalls \in 0..1

\* ========================================================================
\* Properties
\* ========================================================================
Settled(i) == inv[i].pc = "settled"
Responded(i) == inv[i].response # Null
Response(i) == inv[i].response[1]

\* C1: every response a hook returns is either {success: true, digest = the
\* digest the signer yielded, error unset} or {success: false, error set,
\* digest unset}; none carries both an error and a digest.
C1_ResponseShape ==
  \A i \in Inv : Responded(i) =>
    \/ /\ Response(i).success = TRUE
       /\ inv[i].result # Null
       /\ Response(i).digest = Some(inv[i].result[1].digest)
       /\ Response(i).error = Null
    \/ /\ Response(i).success = FALSE
       /\ Response(i).error # Null
       /\ Response(i).digest = Null

\* A split that failed at the wallet has returned its failure response.
C1_Witness ==
  \E i \in Inv : /\ Settled(i) /\ inv[i].hook = "split"
                 /\ inv[i].walletCalls > 0
                 /\ Response(i).success = FALSE

\* C2: the promise of a hook invocation never rejects: whatever was thrown
\* or rejected (Error or not, by the signer or by the pre-flight check), the
\* invocation settles with a response, and the response says success = false.
C2_NeverRejects ==
  \A i \in Inv :
    /\ inv[i].pc # "rejected"
    /\ Settled(i) => Responded(i)
    /\ (Settled(i) /\ inv[i].err # Null) => Response(i).success = FALSE

\* The signer rejected with a value that is not an Error and the invocation
\* resolved with a failure response.
C2_Witness ==
  \E i \in Inv : /\ Settled(i)
                 /\ inv[i].err # Null
                 /\ ~inv[i].err[1].isError
                 /\ Response(i).success = FALSE

\* C3 (as claimed): for every hook, isLoading is true exactly while one of
\* its invocations is pending, overlapping invocations included.
C3_LoadingIffPending ==
  \A h \in Hooks : isLoading[h] <=> PendingOn(h) # {}

\* C4: on a hook whose invocations do not overlap, isLoading is true exactly
\* from the start of an invocation until its promise settles, on the success
\* path, the signer-rejection path and the pre-flight-throw path alike.
C4_LoadingWindow ==
  \A h \in Hooks : ~overlapped[h] => (isLoading[h] <=> PendingOn(h) # {})

\* A split that the pre-flight check threw out has settled and isLoading is
\* back to false.
C4_Witness ==
  \E i \in Inv : /\ Settled(i) /\ inv[i].hook = "split"
                 /\ inv[i].err # Null /\ inv[i].mutateCalls = 0
                 /\ ~overlapped["split"]
                 /\ ~isLoading["split"]

\* C5 (as claimed): once every invocation of a hook has settled, the hook's
\* state is that of the invocation that settled last: error = null if it
\* succeeded, its classified message if it failed, and isLoading = false.
C5_LastSettledWins ==
  \A i \in Inv : (Settled(i) /\ PendingOn(inv[i].hook) = {}) =>
    /\ ~isLoading[inv[i].hook]
    /\ error[inv[i].hook] = Response(i).error

\* C6 (as claimed): a failed invocation returns success = false, no digest and
\* a non-empty error string, and the hook's error state holds that string.
C6_FailureHasMessage ==
  \A i \in Inv : (Responded(i) /\ ~Response(i).success) =>
    /\ Response(i).digest = Null
    /\ Response(i).error # Null
    /\ Response(i).error[1] # ""
    /\ error[inv[i].hook] = Response(i).error

HookToasts(i, kind) == {k \in 1..Len(inv[i].toasts) : inv[i].toasts[k].kind = kind}

\* C7: an invocation makes its hook emit exactly one notification: a success
\* notification iff the response says success, else an error notification
\* (a split rejected by the pre-flight check included); never zero or two.
C7_OneNotification ==
  \A i \in Inv :
    /\ Len(inv[i].toasts) <= 1
    /\ Responded(i) =>
         /\ Len(inv[i].toasts) = 1
         /\ Cardinality(HookToasts(i, "success")) = (IF Response(i).success THEN 1 ELSE 0)
         /\ Cardinality(HookToasts(i, "error")) = (IF Response(i).success THEN 0 ELSE 1)

\* A split rejected by the pre-flight check has settled with its one error
\* notification.
C7_Witness ==
  \E i \in Inv : /\ Settled(i) /\ inv[i].hook = "split"
                 /\ inv[i].mutateCalls = 0
                 /\ Len(inv[i].toasts) = 1
                 /\ inv[i].toasts[1].kind = "error"

\* C8 (as claimed): the call description of an invocation reaches the
\* sign-and-execute capability exactly once; a rejected submission is never
\* handed to the wallet again.
C8_SubmittedOnce ==
  \A i \in Inv : inv[i].mutateCalls <= 1 /\ inv[i].walletCalls <= 1

\* The owned balances the invocation's pre-flight check looks at.
RECURSIVE SumOfBalances(_)
SumOfBalances(data) ==
  IF Len(data) = 0 THEN 0 ELSE data[1].balance + SumOfBalances(Tail(data))
LargestBalance(data) ==
  CHOOSE b \in {data[k].balance : k \in 1..Len(data)} :
    \A k \in 1..Len(data) : data[k].balance <= b
RequestedMist(i) == suiToMist(Arg(i))
NoCoinsKnown(i) == inv[i].coins = Null \/ Len(inv[i].coins[1]) = 0
MustFailFast(i) ==
  \/ NoCoinsKnown(i)
  \/ RequestedMist(i) + 10000000 > SumOfBalances(inv[i].coins[1])
  \/ LargestBalance(inv[i].coins[1]) < RequestedMist(i) + 10000000

\* C9: a split fails fast, without any signer call, when no owned coins are
\* known, when amount + 10,000,000 exceeds the sum of the owned balances, or
\* when the largest owned coin is smaller than amount + 10,000,000.
C9_FailFast ==
  \A i \in Inv :
    (inv[i].hook = "split" /\ inv[i].pc # "preflight" /\ MustFailFast(i)) =>
      /\ inv[i].pc \in {"catch", "classified", "finally", "settled", "returned"}
      /\ inv[i].mutateCalls = 0
      /\ inv[i].walletCalls = 0
      /\ Responded(i) => Response(i).success = FALSE

\* The owned coins together cover amount + gas but the largest one does not,
\* and the split has settled as a failure with no signer call.
C9_Witness ==
  \E i \in Inv : /\ Settled(i) /\ inv[i].hook = "split"
                 /\ ~NoCoinsKnown(i)
                 /\ RequestedMist(i) + 10000000 <= SumOfBalances(inv[i].coins[1])
                 /\ LargestBalance(inv[i].coins[1]) < RequestedMist(i) + 10000000
                 /\ inv[i].mutateCalls = 0
                 /\ Response(i).success = FALSE

\* C10: when at least one coin is owned and the largest holds at least
\* amount + 10,000,000, splitCoin calls the signer exactly once, with the
\* split transaction it built.
C10_PassThenSubmitOnce ==
  \A i \in Inv :
    (/\ inv[i].hook = "split"
     /\ ~NoCoinsKnown(i)
     /\ LargestBalance(inv[i].coins[1]) >= RequestedMist(i) + 10000000) =>
       IF inv[i].pc \in {"preflight", "build", "submit"}
       THEN inv[i].mutateCalls = 0
       ELSE /\ inv[i].mutateCalls = 1
            /\ inv[i].submitted = inv[i].transaction
            /\ inv[i].submitted # Null
            /\ inv[i].submitted[1][1].kind = "SplitCoins"
            /\ inv[i].submitted[1][1].amounts = <<RequestedMist(i)>>

\* The largest coin holds exactly amount + gas and the split transaction is
\* with the signer.
C10_Witness ==
  \E i \in Inv : /\ inv[i].hook = "split" /\ inv[i].pc = "awaiting"
                 /\ ~NoCoinsKnown(i)
                 /\ LargestBalance(inv[i].coins[1]) = RequestedMist(i) + 10000000
                 /\ inv[i].mutateCalls = 1

\* C11 (as claimed): a split that the pre-flight guard rejected is classified
\* INSUFFICIENT_BALANCE, a tag of the pre-flight guard alone.
C11_PreFlightTag ==
  \A i \in Inv :
    (inv[i].hook = "split" /\ inv[i].mutateCalls = 0 /\ inv[i].suiError # Null) =>
      inv[i].suiError[1].code = "INSUFFICIENT_BALANCE"

\* ========================================================================
\* handleTransactionError on its own
\* ========================================================================
MaxPhrases == 2   \* error phrases joined into one message

\* The five phrases the classifier knows, in its order of testing: literal is
\* the text the code searches for, phrase the same text in lower case.
KnownPhrases ==
  << [literal |-> "Insufficient funds", phrase |-> "insufficient funds",
      code |-> "INSUFFICIENT_FUNDS",
      message |-> "Insufficient SUI balance to complete the transaction"],
     [literal |-> "Gas budget", phrase |-> "gas budget",
      code |-> "GAS_BUDGET_ERROR",
      message |-> "Transaction requires more gas than available"],
     [literal |-> "No valid gas coins found", phrase |-> "no valid gas coins found",
      code |-> "NO_GAS_COINS",
      message |-> "No separate coin available for gas fees. You may need more SUI coins or a larger balance."],
     [literal |-> "Object not found", phrase |-> "object not found",
      code |-> "OBJECT_NOT_FOUND",
      message |-> "The requested object was not found on the blockchain"],
     [literal |-> "User rejected", phrase |-> "user rejected",
      code |-> "USER_REJECTED",
      message |-> "Transaction was rejected by the user"] >>

UpperCaseLetters == "ABCDEFGHIJKLMNOPQRSTUVWXYZ"
LowerCaseLetters == "abcdefghijklmnopqrstuvwxyz"
toLowerChar(c) ==
  IF \E k \in 1..26 : SubSeq(UpperCaseLetters, k, k) = c
  THEN LET k == CHOOSE n \in 1..26 : SubSeq(UpperCaseLetters, n, n) = c
       IN SubSeq(LowerCaseLetters, k, k)
  ELSE c
toUpperChar(c) ==
  IF \E k \in 1..26 : SubSeq(LowerCaseLetters, k, k) = c
  THEN LET k == CHOOSE n \in 1..26 : SubSeq(LowerCaseLetters, n, n) = c
       IN SubSeq(UpperCaseLetters, k, k)
  ELSE c
RECURSIVE toLowerCase(_)
toLowerCase(str) ==
  IF Len(str) = 0 THEN ""
  ELSE toLowerCase(SubSeq(str, 1, Len(str) - 1)) \o toLowerChar(SubSeq(str, Len(str), Len(str)))
RECURSIVE toUpperCase(_)
toUpperCase(str) ==
  IF Len(str) = 0 THEN ""
  ELSE toUpperCase(SubSeq(str, 1, Len(str) - 1)) \o toUpperChar(SubSeq(str, Len(str), Len(str)))

\* Each phrase as the code spells it, in lower case and in upper case.
PhraseTexts ==
  UNION { {KnownPhrases[k].literal, KnownPhrases[k].phrase, toUpperCase(KnownPhrases[k].literal)}
          : k \in 1..Len(KnownPhrases) }

RECURSIVE JoinPhrases(_)
JoinPhrases(parts) ==
  IF Len(parts) = 0 THEN "rpc error"
  ELSE JoinPhrases(SubSeq(parts, 1, Len(parts) - 1)) \o ": " \o parts[Len(parts)]

\* Messages of the Errors handed to the classifier: none, one or several
\* phrases inside other text, plus messages with no phrase at all.
ErrorMessages ==
  {JoinPhrases(parts) : parts \in SeqsUpTo(PhraseTexts, MaxPhrases)}
    \cup {"", "network unreachable"}

\* Failure values: Errors, and values that are not Errors (a thrown string,
\* undefined, a plain object), whatever they hold.
FailureValues ==
  {Err(m) : m \in ErrorMessages}
    \cup {NonError(v) : v \in {"", "declined", "User rejected", "Insufficient funds"}}

Quiet ==
  /\ isLoading = [h \in Hooks |-> FALSE]
  /\ error = [h \in Hooks |-> Null]
  /\ currentAccount = Null
  /\ coins = Null
  /\ levelingUpNFTId = Null
  /\ inv = [i \in 1..MaxInv |-> Fresh]
  /\ running = 0
  /\ overlapped = [h \in Hooks |-> FALSE]
  /\ lastSplitResult = Null
  /\ ledger = Null
Application == <<isLoading, error, currentAccount, coins, levelingUpNFTId, inv, running, overlapped,
                 lastSplitResult, ledger>>

InitClassifier ==
  /\ Quiet
  /\ poller = NotCalled
  /\ builder = NotCalled
  /\ faucet = NotCalled
  /\ classifier \in {[pc |-> "called", error |-> v, result |-> Null] : v \in FailureValues}

\* const suiError = handleTransactionError(error)
ClassifyFailure ==
  /\ classifier.pc = "called"
  /\ classifier' = [classifier EXCEPT !.pc = "returned",
                                      !.result = Some(handleTransactionError(classifier.error))]
  /\ UNCHANGED <<Application, poller, builder, faucet>>

NextClassifier == ClassifyFailure

SpecClassifier == InitClassifier /\ [][NextClassifier]_vars

Classified == classifier.pc = "returned"
ContainsIgnoringCase(msg, phrase) == Includes(toLowerCase(msg), phrase)
PhrasesIgnoringCase(msg) ==
  {k \in 1..Len(KnownPhrases) : ContainsIgnoringCase(msg, KnownPhrases[k].phrase)}
PhrasesMatched(msg) ==
  {k \in 1..Len(KnownPhrases) : Includes(msg, KnownPhrases[k].literal)}
First(S) == CHOOSE k \in S : \A j \in S : k <= j

\* C12 (as claimed): an Error whose message contains one of the five known
\* phrases, in whatever letter case, gets that phrase's code and fixed
\* message.
C12_AnyLetterCase ==
  (Classified /\ classifier.error.isError) =>
    \A k \in 1..Len(KnownPhrases) :
      PhrasesIgnoringCase(classifier.error.message) = {k} =>
        /\ classifier.result[1].code = KnownPhrases[k].code
        /\ classifier.result[1].message = KnownPhrases[k].message

\* C13: when the message of an Error matches more than one of the
\* classifier's phrases, the code is that of the first of them in the order
\* INSUFFICIENT_FUNDS, GAS_BUDGET_ERROR, NO_GAS_COINS, OBJECT_NOT_FOUND,
\* USER_REJECTED, wherever the phrases stand in the message.
C13_FirstMatchWins ==
  (/\ Classified /\ classifier.error.isError
   /\ Cardinality(PhrasesMatched(classifier.error.message)) >= 2) =>
    /\ classifier.result[1].code = KnownPhrases[First(PhrasesMatched(classifier.error.message))].code
    /\ classifier.result[1].message = KnownPhrases[First(PhrasesMatched(classifier.error.message))].message

\* A message that names the user rejection before the insufficient funds has
\* been classified.
C13_Witness ==
  /\ Classified
  /\ classifier.error = Err("rpc error: User rejected: Insufficient funds")
  /\ classifier.result[1].code = "INSUFFICIENT_FUNDS"

ClassifierTags ==
  {"INSUFFICIENT_FUNDS", "GAS_BUDGET_ERROR", "NO_GAS_COINS", "OBJECT_NOT_FOUND",
   "USER_REJECTED", "TRANSACTION_ERROR", "UNKNOWN_ERROR"}

\* C14: the classifier returns for every failure value a code among its seven
\* tags and details = the value it was given; a value that is not an Error
\* gets UNKNOWN_ERROR and the generic message whatever it holds; an Error
\* matching no phrase gets TRANSACTION_ERROR and its own message verbatim.
C14_TotalClassifier ==
  Classified =>
    /\ classifier.result # Null
    /\ classifier.result[1].code \in ClassifierTags
    /\ classifier.result[1].details = classifier.error
    /\ ~classifier.error.isError =>
         /\ classifier.result[1].code = "UNKNOWN_ERROR"
         /\ classifier.result[1].message = "An unknown error occurred during the transaction"
    /\ (classifier.error.isError /\ PhrasesMatched(classifier.error.message) = {}) =>
         /\ classifier.result[1].code = "TRANSACTION_ERROR"
         /\ classifier.result[1].message = classifier.error.message

\* A thrown string that reads like a known phrase has been classified as
\* unknown.
C14_Witness ==
  /\ Classified
  /\ classifier.error = NonError("User rejected")
  /\ classifier.result[1].code = "UNKNOWN_ERROR"

\* ========================================================================
\* waitForTransaction on its own
\* ========================================================================
DefaultTimeoutMs == 30000   \* timeoutMs: number = 30000
PollIntervalMs == 1000      \* setTimeout(resolve, 1000)
ShortTimeoutMs == 2500      \* a timeout passed by the caller
SlowQueryMs == 400          \* time a slow status query takes

Timeouts == {ShortTimeoutMs, DefaultTimeoutMs}
QueryLatencies == {0, SlowQueryMs}
QueryPayloads == {"effects of 0xd1", "effects of 0xd2"}
FailureReasons == {"", "InsufficientGas", "MoveAbort in simple_nft", "Dependent package not found"}

\* What one getTransactionBlock call can come back with: a result whose
\* effects.status.status is 'success', 'failure' or absent (""), or a
\* rejection with some value.
QueryResults ==
  {[resolved |-> TRUE, status |-> "success", error |-> "", payload |-> p, value |-> Null]
     : p \in QueryPayloads}
    \cup {[resolved |-> TRUE, status |-> "failure", error |-> r, payload |-> "", value |-> Null]
            : r \in FailureReasons}
    \cup {[resolved |-> TRUE, status |-> "", error |-> "", payload |-> "", value |-> Null]}
QueryErrors ==
  {Err("Transaction not found"), Err("digest 0xd1 not found in index"),
   Err("network unreachable"), Err(""),
   NonError("socket closed"), NonError("not found")}
Rejection(e) ==
  [resolved |-> FALSE, status |-> "", error |-> "", payload |-> "", value |-> Some(e)]

\* Mutant: the catch block rethrows whatever it caught.
Rethrown_Always(e) == TRUE

\* if (error instanceof Error && !error.message.includes('not found')) throw error
Rethrown(e) == e.isError /\ ~Includes(e.message, "not found")

NotFoundClass(e) == Includes(e.message, "not found")
NonTerminal(a) ==
  IF a.resolved THEN a.status \notin {"success", "failure"} ELSE NotFoundClass(a.value[1])

InitPoller ==
  /\ Quiet
  /\ classifier = NotCalled
  /\ poller = NotCalled
  /\ builder = NotCalled
  /\ faucet = NotCalled

\* const startTime = Date.now()
waitForTransaction(timeoutMs) ==
  /\ poller.pc = "idle"
  /\ poller' = [pc |-> "loop", timeoutMs |-> timeoutMs, elapsed |-> 0, queries |-> 0,
                answer |-> Null, result |-> Null, thrown |-> Null,
                leadingMisses |-> 0, unsettled |-> TRUE]
  /\ UNCHANGED <<Application, classifier, builder, faucet>>

\* while (Date.now() - startTime < timeoutMs) { await client.getTransactionBlock(...)
IssueQuery ==
  /\ poller.pc = "loop"
  /\ poller.elapsed < poller.timeoutMs
  /\ poller' = [poller EXCEPT !.pc = "querying", !.queries = @ + 1, !.answer = Null]
  /\ UNCHANGED <<Application, classifier, builder, faucet>>

\* the loop condition fails: throw new Error('Transaction confirmation timeout')
TimeOut ==
  /\ poller.pc = "loop"
  /\ ~(poller.elapsed < poller.timeoutMs)
  /\ poller' = [poller EXCEPT !.pc = "thrown",
                              !.thrown = Some(Err("Transaction confirmation timeout"))]
  /\ UNCHANGED <<Application, classifier, builder, faucet>>

\* The catch block: rethrow, or fall through to the one-second wait.
Caught(e, a, latency) ==
  IF Rethrown(e)
  THEN [poller EXCEPT !.pc = "thrown", !.thrown = Some(e), !.answer = Some(a),
                      !.elapsed = @ + latency,
                      !.unsettled = @ /\ NonTerminal(a)]
  ELSE [poller EXCEPT !.pc = "sleeping", !.answer = Some(a),
                      !.elapsed = @ + latency,
                      !.unsettled = @ /\ NonTerminal(a),
                      !.leadingMisses =
                         IF ~a.resolved /\ NotFoundClass(e) /\ e.isError /\ @ = poller.queries - 1
                         THEN @ + 1 ELSE @]

\* The query resolves after latency ms.
QueryResolves(a, latency) ==
  /\ poller.pc = "querying"
  /\ a.resolved
  /\ poller' =
       IF a.status = "success"
       THEN [poller EXCEPT !.pc = "returned", !.result = Some(a), !.answer = Some(a),
                           !.elapsed = @ + latency, !.unsettled = FALSE]
       ELSE IF a.status = "failure"
       THEN Caught(Err("Transaction failed: " \o a.error), a, latency)
       ELSE [poller EXCEPT !.pc = "sleeping", !.answer = Some(a),
                           !.elapsed = @ + latency]
  /\ UNCHANGED <<Application, classifier, builder, faucet>>

\* The query rejects with e after latency ms.
QueryRejects(e, latency) ==
  /\ poller.pc = "querying"
  /\ poller' = Caught(e, Rejection(e), latency)
  /\ UNCHANGED <<Application, classifier, builder, faucet>>

\* await new Promise(resolve => setTimeout(resolve, 1000))
Sleep ==
  /\ poller.pc = "sleeping"
  /\ poller' = [poller EXCEPT !.pc = "loop", !.elapsed = @ + PollIntervalMs]
  /\ UNCHANGED <<Application, classifier, builder, faucet>>

NextPoller ==
  \/ \E t \in Timeouts : waitForTransaction(t)
  \/ IssueQuery
  \/ TimeOut
  \/ \E a \in QueryResults, l \in QueryLatencies : QueryResolves(a, l)
  \/ \E e \in QueryErrors, l \in QueryLatencies : QueryRejects(e, l)
  \/ Sleep

SpecPoller == InitPoller /\ [][NextPoller]_vars

Polling == poller.pc # "idle"

\* C15: not-found errors keep the poller polling and never end it; when the
\* first k-1 queries fail with not-found errors and the k-th reports success,
\* the poller returns the k-th result after exactly k queries; it issues at
\* most one query per one-second tick.
C15_ReturnsKthResult ==
  Polling =>
    /\ poller.thrown # Null => ~(poller.thrown[1].isError /\ NotFoundClass(poller.thrown[1]))
    /\ (poller.pc = "returned" /\ poller.leadingMisses = poller.queries - 1) =>
         /\ poller.result = poller.answer
         /\ poller.result[1].status = "success"
         /\ poller.thrown = Null
    /\ poller.queries <= (poller.elapsed \div PollIntervalMs) + 1

\* not found, not found, success: returned after three queries.
C15_Witness ==
  /\ Polling
  /\ poller.pc = "returned"
  /\ poller.leadingMisses = 2
  /\ poller.queries = 3
  /\ poller.result[1].payload = "effects of 0xd1"

\* C16 (as claimed): a query that reports terminal failure ends the poller
\* at once with the error 'Transaction failed: <reason>', whatever the reason
\* text.
C16_FailsAtOnce ==
  (/\ Polling /\ poller.answer # Null
   /\ poller.answer[1].resolved /\ poller.answer[1].status = "failure") =>
    /\ poller.pc = "thrown"
    /\ poller.thrown = Some(Err("Transaction failed: " \o poller.answer[1].error))

\* C17 (as claimed): a query that rejects with anything but a not-found
\* error ends the poller at once with the value the query rejected with.
C17_PropagatesAtOnce ==
  (/\ Polling /\ poller.answer # Null
   /\ ~poller.answer[1].resolved /\ ~NotFoundClass(poller.answer[1].value[1])) =>
    /\ poller.pc = "thrown"
    /\ poller.thrown = poller.answer[1].value

\* C18 (as claimed): when no query ever reports a terminal state, the error
\* the poller ends with is classified TIMEOUT.
C18_TimeoutTag ==
  (Polling /\ poller.pc = "thrown" /\ poller.unsettled) =>
    handleTransactionError(poller.thrown[1]).code = "TIMEOUT"

\* ========================================================================
\* What the signer is handed (checked under Spec)
\* ========================================================================
Handed(i) == inv[i].submitted # Null

\* C19: the signer is handed the builder's call description as built: for
\* mintNFT one call of PACKAGE_ID::simple_nft::mint with name, description,
\* image_url as strings in that order; for levelUp one call of
\* PACKAGE_ID::simple_nft::level_up with the one object reference nftId.
C19_SignerGetsBuilt ==
  \A i \in Inv :
    Handed(i) =>
      /\ inv[i].submitted = inv[i].transaction
      /\ inv[i].hook = "mint" =>
           inv[i].submitted[1] =
             << [kind |-> "MoveCall",
                 target |-> PACKAGE_ID \o "::simple_nft::mint",
                 arguments |-> << [pure |-> "string", value |-> Arg(i).name],
                                  [pure |-> "string", value |-> Arg(i).description],
                                  [pure |-> "string", value |-> Arg(i).image_url] >>] >>
      /\ inv[i].hook = "levelUp" =>
           inv[i].submitted[1] =
             << [kind |-> "MoveCall",
                 target |-> PACKAGE_ID \o "::simple_nft::level_up",
                 arguments |-> << [object |-> Arg(i)] >>] >>

\* A mint and a level-up are both with the signer.
C19_Witness ==
  \E i, j \in Inv :
    /\ Handed(i) /\ inv[i].hook = "mint" /\ inv[i].pc = "awaiting"
    /\ Handed(j) /\ inv[j].hook = "levelUp" /\ inv[j].pc = "awaiting"

\* C20 (as claimed): the split handed to the signer splits from the coin the
\* pre-flight check selected, the one passed as coinObjectId.
C20_SplitsCheckedCoin ==
  \A i \in Inv :
    (Handed(i) /\ inv[i].hook = "split") =>
      inv[i].submitted[1][1].coin = suitableCoin(inv[i].coins[1]).coinObjectId

\* ========================================================================
\* createCoinSplitTransaction on its own
\* ========================================================================
MaxAmount == 8   \* split amounts handed to the builder, in MIST

BuilderCoins == {"0xcoin1", "0xcoin2"}
BuilderRecipients == {Null, Some(""), Some("0xA11CE"), Some("0xB0B")}

InitBuilder ==
  /\ Quiet
  /\ classifier = NotCalled
  /\ poller = NotCalled
  /\ faucet = NotCalled
  /\ builder \in {[pc |-> "called", coinObjectId |-> c, amount |-> a, recipient |-> r,
                   result |-> Null]
                    : c \in BuilderCoins, a \in 1..MaxAmount, r \in BuilderRecipients}

\* const tx = createCoinSplitTransaction(coinObjectId, amount, recipient)
BuildSplit ==
  /\ builder.pc = "called"
  /\ builder' = [builder EXCEPT
       !.pc = "returned",
       !.result = Some(createCoinSplitTransaction(builder.coinObjectId, builder.amount,
                                                  builder.recipient))]
  /\ UNCHANGED <<Application, classifier, poller, faucet>>

NextBuilder == BuildSplit

SpecBuilder == InitBuilder /\ [][NextBuilder]_vars

Transfers(tx) == {k \in 1..Len(tx) : tx[k].kind = "TransferObjects"}

\* C21 (as claimed): the transaction the builder returns always transfers
\* the split coin: to the recipient when one is given, and back to the
\* sender when it is omitted.
C21_AlwaysTransfers ==
  builder.pc = "returned" =>
    /\ Transfers(builder.result[1]) # {}
    /\ \A k \in Transfers(builder.result[1]) :
         /\ builder.result[1][k].objects = <<"Result(0)">>
         /\ (builder.recipient # Null /\ builder.recipient[1] # "") =>
              builder.result[1][k].address = builder.recipient[1]

\* ========================================================================
\* The forms around mintNFT and splitCoin (checked under Spec)
\* ========================================================================
Returned(i) == inv[i].pc = "returned"
FormToasts(i, kind) ==
  {k \in 1..Len(inv[i].formToasts) : inv[i].formToasts[k].kind = kind}
\* Outcome notifications of one invocation, the hook's and the form's.
Shown(i, kind) == Cardinality(HookToasts(i, kind)) + Cardinality(FormToasts(i, kind))

\* C22 (as claimed): when mintNFT reported failure, MintForm has not reset
\* the form, has not scheduled onMintSuccess and shows no success
\* notification, only the failure.
C22_SuccessEffectsOnSuccessOnly ==
  \A i \in Inv :
    (/\ Returned(i) /\ inv[i].hook = "mint"
     /\ Responded(i) /\ ~Response(i).success) =>
      /\ ~inv[i].formReset
      /\ ~inv[i].refreshScheduled
      /\ Shown(i, "success") = 0
      /\ Shown(i, "error") >= 1

\* C23 (as claimed): an operation triggered through MintForm or
\* CoinSplitForm shows the user exactly one outcome notification, the hook's
\* and the form's counted together, and never a success and a failure both.
C23_OneOutcomeShown ==
  \A i \in Inv :
    (Returned(i) /\ inv[i].hook \in {"mint", "split"}) =>
      /\ Shown(i, "success") + Shown(i, "error") = 1
      /\ ~(Shown(i, "success") > 0 /\ Shown(i, "error") > 0)

\* ========================================================================
\* useFaucet on its own
\* ========================================================================
MaxRequests == 2   \* requestSUI calls on one useFaucet instance

Requests == 1..MaxRequests

\* What requestSuiFromFaucetV2 may reject with.
FaucetErrors ==
  { Err("Rate limit exceeded"), Err("Too Many Requests"), Err("Network error"),
    Err("invalid recipient"), Err("internal error"), NonError("503") }

\* The catch block's choice of errorMessage.
faucetErrorMessage(err) ==
  IF err.isError
  THEN LET errorText == toLowerCase(err.message)
       IN IF Includes(errorText, "rate limit") \/ Includes(errorText, "too many requests")
          THEN "Rate limit exceeded. Please wait a few minutes before requesting again."
          ELSE IF \/ Includes(errorText, "network") \/ Includes(errorText, "connection")
                  \/ Includes(errorText, "failed to fetch")
          THEN "Faucet service is temporarily unavailable. Try alternative methods below."
          ELSE IF Includes(errorText, "recipient")
          THEN "Invalid wallet address. Please reconnect your wallet."
          ELSE "Request failed: " \o err.message
  ELSE "Failed to request SUI tokens"

\* useState(false), useState(false), useState(null); toasts are the
\* notifications on screen, latest the outcome of the request that ended last.
Mounted ==
  [pc |-> "mounted", isLoading |-> FALSE, isSuccess |-> FALSE, error |-> Null,
   toasts |-> <<>>, req |-> [r \in Requests |-> "idle"], latest |-> "none"]

InitFaucet ==
  /\ Quiet
  /\ classifier = NotCalled
  /\ poller = NotCalled
  /\ builder = NotCalled
  /\ faucet = Mounted

NextRequest(r) ==
  /\ faucet.req[r] = "idle"
  /\ \A q \in Requests : q < r => faucet.req[q] # "idle"

Quiescent == <<isLoading, error, coins, levelingUpNFTId, inv, running, overlapped,
               lastSplitResult, ledger, classifier, poller, builder>>

WalletConnects(a) ==
  /\ currentAccount = Null
  /\ currentAccount' = Some(a)
  /\ UNCHANGED <<Quiescent, faucet>>

WalletDisconnects ==
  /\ currentAccount # Null
  /\ currentAccount' = Null
  /\ UNCHANGED <<Quiescent, faucet>>

\* requestSUI with no account: toast.error, setError, return.
requestSUINotConnected(r) ==
  /\ NextRequest(r)
  /\ currentAccount = Null
  /\ faucet' = [faucet EXCEPT !.toasts = Append(@, [kind |-> "error", req |-> r]),
                              !.error = Some("Wallet not connected"),
                              !.req[r] = "done",
                              !.latest = "failure"]
  /\ UNCHANGED <<Quiescent, currentAccount>>

\* requestSUI with an account, up to the await of the faucet request.
requestSUI(r) ==
  /\ NextRequest(r)
  /\ currentAccount # Null
  /\ faucet' = [faucet EXCEPT !.isLoading = TRUE,
                              !.error = Null,
                              !.isSuccess = FALSE,
                              !.toasts = Append(@, [kind |-> "loading", req |-> r]),
                              !.req[r] = "awaiting"]
  /\ UNCHANGED <<Quiescent, currentAccount>>

Dismiss(toasts, t) == SelectSeq(toasts, LAMBDA x : x # t)

\* The faucet answers: dismiss the loading toast, toast.success,
\* setIsSuccess(true); finally setIsLoading(false).
FaucetResolves(r) ==
  /\ faucet.req[r] = "awaiting"
  /\ faucet' = [faucet EXCEPT
       !.toasts = Append(Dismiss(@, [kind |-> "loading", req |-> r]),
                         [kind |-> "success", req |-> r]),
       !.isSuccess = TRUE,
       !.isLoading = FALSE,
       !.req[r] = "done",
       !.latest = "success"]
  /\ UNCHANGED <<Quiescent, currentAccount>>

\* The faucet request rejects: dismiss every toast, toast.error,
\* setError(errorMessage); finally setIsLoading(false).
FaucetRejects(r, e) ==
  /\ faucet.req[r] = "awaiting"
  /\ faucet' = [faucet EXCEPT
       !.toasts = <<[kind |-> "error", req |-> r]>>,
       !.error = Some(faucetErrorMessage(e)),
       !.isLoading = FALSE,
       !.req[r] = "done",
       !.latest = "failure"]
  /\ UNCHANGED <<Quiescent, currentAccount>>

NextFaucet ==
  \/ \E a \in Addresses : WalletConnects(a)
  \/ WalletDisconnects
  \/ \E r \in Requests : requestSUINotConnected(r)
  \/ \E r \in Requests : requestSUI(r)
  \/ \E r \in Requests : FaucetResolves(r)
  \/ \E r \in Requests, e \in FaucetErrors : FaucetRejects(r, e)

SpecFaucet == InitFaucet /\ [][NextFaucet]_vars

RequestsInFlight == {r \in Requests : faucet.req[r] = "awaiting"}

\* C24 (as claimed): with no request in flight, isSuccess says that the
\* most recent request succeeded, error is set exactly when it failed, the
\* two never hold together, and isLoading is false.
C24_FaucetState ==
  (faucet.pc = "mounted" /\ RequestsInFlight = {}) =>
    /\ faucet.isSuccess <=> faucet.latest = "success"
    /\ faucet.error # Null <=> faucet.latest = "failure"
    /\ ~(faucet.isSuccess /\ faucet.error # Null)
    /\ ~faucet.isLoading

\* ========================================================================
\* Order of the steps of one invocation (checked under SpecLive)
\* ========================================================================
Pos(i, step) ==
  IF \E k \in 1..Len(inv[i].steps) : inv[i].steps[k] = step
  THEN CHOOSE k \in 1..Len(inv[i].steps) : inv[i].steps[k] = step
  ELSE 0
\* If b was executed, a was executed before it.
Before(i, a, b) == Pos(i, b) # 0 => (Pos(i, a) # 0 /\ Pos(i, a) < Pos(i, b))

\* C25: within one invocation isLoading is set and error is reset before the
\* call is built, the call is built before it is submitted, the classifier
\* runs only after a failure and before the error state and the error
\* notification are written, isLoading is reset last, and the split
\* pre-flight runs after isLoading is set and before the build.  No step is
\* executed twice.
C25_StepOrder ==
  \A i \in Inv :
    /\ \A k, l \in 1..Len(inv[i].steps) : inv[i].steps[k] = inv[i].steps[l] => k = l
    /\ inv[i].pc \notin {"idle", "done"} /\ inv[i].mutateCalls + Len(inv[i].toasts) > 0
         => Pos(i, "setIsLoading(true)") # 0
    /\ Before(i, "setIsLoading(true)", "build")
    /\ Before(i, "setError(null)", "build")
    /\ Before(i, "build", "submit")
    /\ inv[i].mutateCalls > 0 => Pos(i, "submit") # 0
    /\ Pos(i, "classify") # 0 => inv[i].err # Null
    /\ inv[i].suiError # Null => Pos(i, "classify") # 0
    /\ Before(i, "classify", "setError")
    /\ Before(i, "classify", "toast.error")
    /\ Pos(i, "setIsLoading(false)") # 0 =>
         Pos(i, "setIsLoading(false)") = Len(inv[i].steps)
    /\ inv[i].hook = "split" =>
         /\ Before(i, "preflight", "build")
         /\ Before(i, "setIsLoading(true)", "preflight")

\* A split that passed the pre-flight check and failed at the wallet has run
\* all its steps.
C25_Witness ==
  \E i \in Inv :
    /\ Settled(i) /\ inv[i].hook = "split"
    /\ inv[i].steps = <<"setIsLoading(true)", "setError(null)", "preflight", "build",
                        "submit", "classify", "setError", "toast.error",
                        "setIsLoading(false)">>

\* ========================================================================
\* The page's level-up handling on its own
\* ========================================================================
MaxClicks == 3   \* Level Up clicks the page handles in one behaviour

Clicks == 1..MaxClicks

\* The gallery of a connected account; nothing but level-ups happens.
InitPage ==
  /\ isLoading = [h \in Hooks |-> FALSE]
  /\ error = [h \in Hooks |-> Null]
  /\ currentAccount \in {Some(a) : a \in Addresses}
  /\ coins = Null
  /\ levelingUpNFTId = Null
  /\ inv = [i \in Clicks |-> Fresh]
  /\ running = 0
  /\ overlapped = [h \in Hooks |-> FALSE]
  /\ lastSplitResult = Null
  /\ ledger = Null
  /\ classifier = NotCalled
  /\ poller = NotCalled
  /\ builder = NotCalled
  /\ faucet = NotCalled

NextPage ==
  \/ \E i \in Clicks, nftId \in NFTIds : handleLevelUp(i, nftId)
  \/ \E i \in Clicks : Build(i)
  \/ \E i \in Clicks : Submit(i)
  \/ \E i \in Clicks, d \in Digests : WalletResolves(i, d)
  \/ \E i \in Clicks, e \in SignerErrors : WalletRejects(i, e)
  \/ \E i \in Clicks : Succeed(i)
  \/ \E i \in Clicks : Classify(i)
  \/ \E i \in Clicks : Fail(i)
  \/ \E i \in Clicks : Finally(i)
  \/ \E i \in Clicks : handleLevelUpFinally(i)

SpecPage == InitPage /\ [][NextPage]_vars

LevelUpsPending == {i \in DOMAIN inv : inv[i].hook = "levelUp" /\ Pending(i)}

\* C26 (as claimed): while a level-up of NFT x is pending, levelingUpNFTId
\* is x, and levelingUpNFTId is undefined only when no level-up is pending.
C26_LevelingIdNamesPending ==
  /\ \A i \in LevelUpsPending : levelingUpNFTId = Some(Arg(i))
  /\ levelingUpNFTId = Null => LevelUpsPending = {}

\* C27 (as claimed): no two level-ups of the same NFT are pending at the
\* same time.
C27_OnePerNFT ==
  \A i, j \in LevelUpsPending : Arg(i) = Arg(j) => i = j


\* ------------------------------------------------------------------------
\* The recipient of a split
\* ------------------------------------------------------------------------
SplitsHanded == {i \in DOMAIN inv : inv[i].hook = "split" /\ Handed(i)}

\* C28: every split transaction that reaches the signer transfers the split
\* coin to the address of the account connected at the call; with no account
\* the coin query holds no data, the pre-flight fails and the signer is
\* never reached.
C28_SplitHasRecipient ==
  /\ \A i \in SplitsHanded :
       /\ inv[i].currentAccount # Null
       /\ \E k \in Transfers(inv[i].submitted[1]) :
            /\ inv[i].submitted[1][k].objects = <<"Result(0)">>
            /\ inv[i].submitted[1][k].address = inv[i].currentAccount[1]
  /\ \A i \in DOMAIN inv :
       (inv[i].hook = "split" /\ inv[i].currentAccount = Null) =>
          /\ inv[i].mutateCalls = 0
          /\ inv[i].coins = Null
          /\ inv[i].pc \in {"catch", "classified", "finally", "settled",
                            "returned", "done"} => inv[i].err # Null

C28_Witness ==
  \E i \in SplitsHanded :
    /\ inv[i].pc = "awaiting"
    /\ Transfers(inv[i].submitted[1]) # {}


\* ------------------------------------------------------------------------
\* The coin data of useCoinSplit against the coins on chain
\* ------------------------------------------------------------------------
\* A specification that tracks the coins the account owns on chain next to
\* the data of the getCoins query.  The query data is what a render of the
\* hook captured; the hook never refetches or invalidates it after a split.
InitCache ==
  /\ isLoading = [h \in Hooks |-> FALSE]
  /\ error = [h \in Hooks |-> Null]
  /\ overlapped = [h \in Hooks |-> FALSE]
  /\ levelingUpNFTId = Null
  /\ lastSplitResult = Null
  /\ classifier = NotCalled
  /\ poller = NotCalled
  /\ builder = NotCalled
  /\ faucet = NotCalled
  /\ currentAccount \in {Some(a) : a \in Addresses}
  /\ ledger \in {Some(l) : l \in CoinLists \ {<<>>}}
  /\ coins \in {Null, ledger}
  /\ inv = [i \in 1..MaxInv |-> Fresh]
  /\ running = 0

\* react-query fetches the coins again when the query is stale and is
\* mounted anew: the data then is what the chain holds.
CoinsRefetch ==
  /\ running = 0
  /\ currentAccount # Null
  /\ coins # ledger
  /\ coins' = ledger
  /\ UNCHANGED <<HookState, currentAccount, levelingUpNFTId, Library,
                 lastSplitResult, ledger, inv, running>>

NextCache ==
  \/ \E i \in Inv, amount \in SplitAmounts : splitCoin(i, amount)
  \/ \E i \in Inv : SplitPreFlight(i)
  \/ \E i \in Inv : Build(i)
  \/ \E i \in Inv : Submit(i)
  \/ \E i \in Inv, digest \in Digests : WalletResolves(i, digest)
  \/ \E i \in Inv, e \in SignerErrors : WalletRejects(i, e)
  \/ \E i \in Inv : Succeed(i)
  \/ \E i \in Inv : Classify(i)
  \/ \E i \in Inv : Fail(i)
  \/ \E i \in Inv : Finally(i)
  \/ \E i \in Inv : Resume(i)
  \/ \E i \in Inv : onSubmitReturns(i)
  \/ CoinsRefetch

SpecCache == InitCache /\ [][NextCache]_vars

\* C30 (as claimed): the balances a split checks in its pre-flight are the
\* ones the account owns when splitCoin is called, so a split that follows
\* an executed split checks the balances as that split left them.
C30_PreFlightSeesChain ==
  \A i \in DOMAIN inv :
    (inv[i].hook = "split" /\ inv[i].coins # Null /\ inv[i].ledgerAtCall # Null)
      => inv[i].coins = inv[i].ledgerAtCall


\* ------------------------------------------------------------------------
\* Progress
\* ------------------------------------------------------------------------
\* The synchronous code of a handler runs on until it awaits or returns,
\* and a continuation whose promise has settled is run by the event loop.
Continues(i) ==
  \/ SplitPreFlight(i)
  \/ Build(i)
  \/ Submit(i)
  \/ Succeed(i)
  \/ Classify(i)
  \/ Fail(i)
  \/ Finally(i)
  \/ handleLevelUpFinally(i)
  \/ Resume(i)
  \/ onSubmitReturns(i)

\* The inputs of the progress specification: progress does not depend on
\* which object id, amount or message a step carries, so one value of each
\* kind stands for all; the errors keep an Error and a thrown non-Error.
LiveErrors == {Err("User rejected the request"), NonError("declined")}
LiveNFTIds == {"0xnft1"}
LiveAmounts == {15}

\* The signer answers every submission: it calls onSuccess or onError.
SignerAnswers(i) ==
  \/ \E d \in Digests : WalletResolves(i, d)
  \/ \E e \in LiveErrors : WalletRejects(i, e)

Fairness ==
  \A i \in Inv : WF_vars(Continues(i)) /\ WF_vars(SignerAnswers(i))

InitLive ==
  /\ Init
  /\ coins \in {Null} \cup {Some(<<CoinObject(1, b)>>) : b \in Balances}

NextLive ==
  \/ \E i \in Inv, data \in MintInputs : MintFormNotConnected(i, data)
  \/ \E i \in Inv, data \in MintInputs : mintNFT(i, data)
  \/ \E i \in Inv, nftId \in LiveNFTIds : handleLevelUp(i, nftId)
  \/ \E i \in Inv, amount \in LiveAmounts : splitCoin(i, amount)
  \/ \E i \in Inv : Continues(i)
  \/ \E i \in Inv : SignerAnswers(i)

SpecLive == InitLive /\ [][NextLive]_vars /\ Fairness

\* C29: with a signer that answers every submission, every started
\* invocation settles with a response, and isLoading of a hook becomes false
\* with no invocation of the hook pending; nothing cancels an invocation
\* midway.
C29_RunsToCompletion ==
  /\ \A i \in Inv :
       Pending(i) ~> (inv[i].pc = "settled" /\ inv[i].response # Null)
  /\ \A h \in Hooks :
       isLoading[h] ~> (PendingOn(h) = {} /\ ~isLoading[h])

C29_Witness ==
  \E i \in Inv :
    /\ inv[i].pc = "settled"
    /\ inv[i].walletCalls > 0
    /\ inv[i].response # Null
    /\ PendingOn(inv[i].hook) = {}
    /\ ~isLoading[inv[i].hook]

====
